---------------------------- MODULE Spec2Model ----------------------------
(*************************************************************************)
(* Model of the FX component mixin (gameobjects/components/FX.js) and of *)
(* the Blur and Displacement effect controllers.                         *)
(*                                                                       *)
(* JavaScript values are represented as follows:                         *)
(*   - every value is a record tagged with its type: Undefined, Null,    *)
(*     Num(n) for an integer-valued Number, Array(s) for an array;       *)
(*   - an object is a record of its properties; its identity is the id   *)
(*     it was given when it was constructed;                             *)
(*   - a Number produced by floating-point arithmetic is a Double        *)
(*     (53-bit significand, most significant bit first, and a binary     *)
(*     exponent).                                                        *)
(*************************************************************************)
EXTENDS Integers, Sequences, FiniteSets, TLC

VARIABLES
    renderer,     \* this.scene.sys.renderer: "null", "canvas" (no pipelines) or "webgl"
    textures,     \* this.scene.sys.textures: the set of frame keys that exist
    pipeline,     \* this.pipeline
    fx,           \* this.fx
    fxPadding,    \* this.fxPadding
    nextId,       \* identity of the next object constructed
    obj,          \* a controller constructed directly (Blur or Displacement), or Null
    last          \* the last call: operation, arguments, whether it threw, what it returned

vars == <<renderer, textures, pipeline, fx, fxPadding, nextId, obj, last>>

-----------------------------------------------------------------------------
(* Bounds *)

MaxFX == 2          \* number of controllers constructed in one behaviour
MaxPadding == 1     \* padding arguments are drawn from 0..MaxPadding

-----------------------------------------------------------------------------
(* JavaScript values *)

Undefined == [t |-> "undefined"]
Null == [t |-> "null"]
Bool(b) == [t |-> "boolean", b |-> b]
Num(n) == [t |-> "number", n |-> n]
Array(s) == [t |-> "array", items |-> s]
This == [t |-> "this"]

\* ToBoolean for the values used as conditions
Truthy(v) ==
    CASE v.t = "undefined" -> FALSE
      [] v.t = "null" -> FALSE
      [] v.t = "boolean" -> v.b
      [] v.t = "number" -> v.n # 0
      [] OTHER -> TRUE

Call(op, args, threw, ret) == [op |-> op, args |-> args, threw |-> threw, ret |-> ret]

NoCall == Call("none", <<>>, FALSE, Undefined)

-----------------------------------------------------------------------------
(* IEEE-754 binary64 arithmetic, as far as the colour accessors use it *)

Precision == 53

Int32Min == -2147483647 - 1

RECURSIVE IntBits(_)
\* the binary digits of n >= 0, most significant first, no leading zero
IntBits(n) == IF n = 0 THEN <<>> ELSE Append(IntBits(n \div 2), n % 2)

RECURSIVE BitsInt(_)
BitsInt(b) ==
    IF Len(b) = 0 THEN 0
    ELSE 2 * BitsInt(SubSeq(b, 1, Len(b) - 1)) + b[Len(b)]

\* the n low binary digits of v >= 0, most significant first
FixedBits(v, n) == [i \in 1..n |-> (v \div 2^(n - i)) % 2]

Zeros(n) == [i \in 1..n |-> 0]

\* digits are handled in groups of 18
GroupBase == 2^18

StripZeros(b) ==
    IF \A i \in 1..Len(b) : b[i] = 0 THEN <<>>
    ELSE LET first == CHOOSE i \in 1..Len(b) :
                          b[i] = 1 /\ \A j \in 1..(i - 1) : b[j] = 0
         IN  SubSeq(b, first, Len(b))

\* b + 1; one digit longer when every digit of b is 1
IncBits(b) ==
    IF \A i \in 1..Len(b) : b[i] = 1 THEN <<1>> \o Zeros(Len(b))
    ELSE LET p == CHOOSE i \in 1..Len(b) :
                      b[i] = 0 /\ \A j \in (i + 1)..Len(b) : b[j] = 1
         IN  [i \in 1..Len(b) |-> IF i < p THEN b[i] ELSE IF i = p THEN 1 ELSE 0]

DZero == [m |-> <<>>, e |-> 0]

\* the double nearest to BitsInt(bits) * 2^e, ties to even
RoundNearestEven(bits, e) ==
    LET b == StripZeros(bits)
        n == Len(b)
    IN  IF n = 0 THEN DZero
        ELSE IF n <= Precision
        THEN [m |-> b \o Zeros(Precision - n), e |-> e - (Precision - n)]
        ELSE LET keep == SubSeq(b, 1, Precision)
                 rest == SubSeq(b, Precision + 1, n)
                 sticky == \E i \in 2..Len(rest) : rest[i] = 1
                 up == rest[1] = 1 /\ (sticky \/ keep[Precision] = 1)
                 r == IF up THEN IncBits(keep) ELSE keep
             IN  IF Len(r) > Precision
                 THEN [m |-> SubSeq(r, 1, Precision), e |-> e + Len(rest) + 1]
                 ELSE [m |-> r, e |-> e + Len(rest)]

\* the Number n as a double (n >= 0)
DFromInt(n) == RoundNearestEven(IntBits(n), 0)

RECURSIVE FracBits(_, _, _)
\* the first 18 * groups binary digits of r / d (0 <= r < d < 2^13) after the
\* point; a non-zero remainder is folded into the last digit
FracBits(r, d, groups) ==
    IF groups = 0 THEN <<>>
    ELSE LET q == (r * GroupBase) \div d
             rem == (r * GroupBase) % d
         IN  IF groups = 1
             THEN FixedBits(IF rem # 0 /\ q % 2 = 0 THEN q + 1 ELSE q, 18)
             ELSE FixedBits(q, 18) \o FracBits(rem, d, groups - 1)

\* n / d for integers n >= 0 and 0 < d < 2^13: the correctly rounded quotient
DDiv(n, d) ==
    RoundNearestEven(IntBits(n \div d) \o FracBits(n % d, d, 4), -72)

\* the digits of BitsInt(b) * k, for at most 54 digits and 0 < k < 2^12
MulBits(b, k) ==
    LET n == Len(b)
        group(j) == BitsInt(SubSeq(b, IF n - 18 * j + 1 < 1 THEN 1 ELSE n - 18 * j + 1,
                                   n - 18 * (j - 1)))
        p1 == group(1) * k
        p2 == group(2) * k + p1 \div GroupBase
        p3 == group(3) * k + p2 \div GroupBase
    IN  IntBits(p3) \o FixedBits(p2 % GroupBase, 18) \o FixedBits(p1 % GroupBase, 18)

\* x * k for a double x >= 0 and an integer 0 < k < 2^12: the correctly
\* rounded product
DMul(x, k) == RoundNearestEven(MulBits(x.m, k), x.e)

\* the low 32 digits of b read as a two's complement integer
Int32OfBits(b) ==
    LET low == IF Len(b) > 32 THEN SubSeq(b, Len(b) - 31, Len(b)) ELSE b
    IN  IF Len(low) = 32 /\ low[1] = 1
        THEN Int32Min + BitsInt(Tail(low))
        ELSE BitsInt(low)

\* ToInt32 of a double x >= 0: drop the fraction, keep the low 32 bits
ToInt32(x) ==
    IF Len(x.m) = 0 \/ Precision + x.e <= 0 THEN 0
    ELSE IF x.e >= 0 THEN Int32OfBits(x.m \o Zeros(x.e))
    ELSE Int32OfBits(SubSeq(x.m, 1, Precision + x.e))

\* n << k for an int32 n >= 0
Shl(n, k) == Int32OfBits(IntBits(n) \o Zeros(k))

\* n >> k for an int32 n >= 0
Shr(n, k) == BitsInt(SubSeq(IntBits(n), 1, Len(IntBits(n)) - k))

\* n & 0xFF for an int32 n >= 0
And0xFF(n) == n % 256

-----------------------------------------------------------------------------
(* The host: renderer, pipelines, textures *)

Renderers == {"null", "canvas", "webgl"}

\* renderer.pipelines: only the WebGL renderer has a pipeline manager
HasPipelines(r) == r = "webgl"

FX_PIPELINE == "FX_PIPELINE"

\* the pipeline the Pipeline component installs by default
defaultPipeline == IF HasPipelines(renderer) THEN "MULTI_PIPELINE" ELSE "null"

\* this.resetPipeline()
resetPipeline == defaultPipeline

FrameKeys == {"__WHITE", "noise", "distort"}

\* the WebGLTexture of the frame stored under a key
GLTextureOf(key) == [t |-> "WebGLTexture", key |-> key]

\* textures.getFrame(key): the frame, or undefined when the key is missing
getFrame(tex, key) ==
    IF key \in tex THEN [t |-> "Frame", glTexture |-> GLTextureOf(key)] ELSE Undefined

-----------------------------------------------------------------------------
(* Effect controllers *)

\* Controller / BaseFX constructor: the kind tag, the owner and the active flag
Controller(type, gameObject, id) ==
    [id |-> id, type |-> type, gameObject |-> gameObject, active |-> TRUE]

\* byte / 255 for every byte, tabulated
Div255 == [byte \in 0..255 |-> DDiv(byte, 255)]

\* the Number 1
One == DFromInt(1)

\* Blur.color setter taking the green channel from the red byte
colorSet_GreenShift(o, value) ==
    [o EXCEPT !.glcolor = << Div255[And0xFF(Shr(value.n, 16))],
                             Div255[And0xFF(Shr(value.n, 16))],
                             Div255[And0xFF(value.n)] >>]

\* Blur.color setter
colorSet(o, value) ==
    [o EXCEPT !.glcolor = << Div255[And0xFF(Shr(value.n, 16))],
                             Div255[And0xFF(Shr(value.n, 8))],
                             Div255[And0xFF(value.n)] >>]

\* Blur.color getter
colorGet(o) ==
    LET color == o.glcolor
    IN  Num(Shl(ToInt32(DMul(color[1], 255)), 16)
            + Shl(ToInt32(DMul(color[2], 255)), 8)
            + ToInt32(DMul(color[3], 255)))

\* new Blur(gameObject, quality, x, y, strength, color, steps)
Blur(id, gameObject, quality, x, y, strength, color, steps) ==
    LET quality1 == IF quality = Undefined THEN Num(0) ELSE quality
        x1 == IF x = Undefined THEN Num(2) ELSE x
        y1 == IF y = Undefined THEN Num(2) ELSE y
        strength1 == IF strength = Undefined THEN Num(1) ELSE strength
        steps1 == IF steps = Undefined THEN Num(4) ELSE steps
        o == Controller("BLUR", gameObject, id) @@
             [quality |-> Num(0), x |-> x1, y |-> y1, steps |-> steps1,
              strength |-> strength1,
              glcolor |-> <<One, One, One>>]
    IN  IF color # Undefined /\ color # Null THEN colorSet(o, color) ELSE o

\* Displacement.setTexture(texture) storing the failed lookup
setTexture_Unset(o, tex, texture) ==
    LET phaserTexture == getFrame(tex, texture)
    IN  [o EXCEPT !.glTexture = IF Truthy(phaserTexture)
                                THEN phaserTexture.glTexture
                                ELSE Undefined]

\* Displacement.setTexture(texture)
setTexture(o, tex, texture) ==
    LET phaserTexture == getFrame(tex, texture)
    IN  IF Truthy(phaserTexture)
        THEN [o EXCEPT !.glTexture = phaserTexture.glTexture]
        ELSE o

\* new Displacement(gameObject); x and y are 0.005, held in thousandths
Displacement(id, gameObject, tex) ==
    setTexture(Controller("DISPLACEMENT", gameObject, id) @@
               [x |-> 5, y |-> 5, glTexture |-> Undefined],
               tex, "__WHITE")

\* the kind tag each of the other effect classes passes to its base constructor
KindTag ==
    [Glow |-> "GLOW", Shadow |-> "SHADOW", Pixelate |-> "PIXELATE",
     Vignette |-> "VIGNETTE", Shine |-> "SHINE", Gradient |-> "GRADIENT",
     Bloom |-> "BLOOM", ColorMatrix |-> "COLOR_MATRIX", Circle |-> "CIRCLE",
     Barrel |-> "BARREL"]

\* new Effects.<class>(gameObject)
NewEffect(class, id, gameObject, tex) ==
    CASE class = "Blur" ->
           Blur(id, gameObject, Undefined, Undefined, Undefined, Undefined,
                Undefined, Undefined)
      [] class = "Displacement" -> Displacement(id, gameObject, tex)
      [] OTHER -> Controller(KindTag[class], gameObject, id)

-----------------------------------------------------------------------------
(* The FX mixin; self is the game object: [pipeline, fx, fxPadding] *)

Self == [pipeline |-> pipeline, fx |-> fx, fxPadding |-> fxPadding]

setFXPadding(self, padding) ==
    LET padding1 == IF padding = Undefined THEN Num(0) ELSE padding
    IN  [self EXCEPT !.fxPadding = padding1]

\* enableFX storing the padding before it looks for the renderer
enableFX_PaddingFirst(self, padding) ==
    LET s0 == IF padding # Undefined THEN [self EXCEPT !.fxPadding = padding] ELSE self
    IN  IF renderer = "null" \/ ~HasPipelines(renderer)
        THEN s0
        ELSE LET s1 == [s0 EXCEPT !.pipeline = FX_PIPELINE]
             IN  IF ~Truthy(s1.fx) THEN [s1 EXCEPT !.fx = Array(<<>>)] ELSE s1

\* enableFX allocating a new list on every call
enableFX_AlwaysNewList(self, padding) ==
    IF renderer = "null" \/ ~HasPipelines(renderer)
    THEN self
    ELSE LET s1 == [self EXCEPT !.pipeline = FX_PIPELINE]
             s2 == [s1 EXCEPT !.fx = Array(<<>>)]
         IN  IF padding # Undefined THEN [s2 EXCEPT !.fxPadding = padding] ELSE s2

enableFX(self, padding) ==
    IF renderer = "null" \/ ~HasPipelines(renderer)
    THEN self
    ELSE LET s1 == [self EXCEPT !.pipeline = FX_PIPELINE]
             s2 == IF ~Truthy(s1.fx) THEN [s1 EXCEPT !.fx = Array(<<>>)] ELSE s1
         IN  IF padding # Undefined THEN [s2 EXCEPT !.fxPadding = padding] ELSE s2

clearFX(self) == self

removeFX(self) == self

\* disableFX without the pipeline reset
disableFX_NoReset(self, clear) ==
    IF Truthy(clear) THEN clearFX(self) ELSE self

disableFX(self, clear) ==
    LET s1 == [self EXCEPT !.pipeline = resetPipeline]
    IN  IF Truthy(clear) THEN clearFX(s1) ELSE s1

\* add<Kind>FX putting the new controller first (unshift instead of push)
addFX_Unshift(self, class, id) ==
    LET s1 == IF ~Truthy(self.fx) THEN enableFX(self, Undefined) ELSE self
        effect == NewEffect(class, id, "this", textures)
    IN  IF s1.fx.t # "array"
        THEN [self |-> s1, threw |-> TRUE, ret |-> Undefined]
        ELSE [self |-> [s1 EXCEPT !.fx = Array(<<effect>> \o s1.fx.items)],
              threw |-> FALSE, ret |-> effect]

\* the body shared by the twelve add<Kind>FX methods; pushing onto a fx that
\* is still null throws a TypeError
addFX(self, class, id) ==
    LET s1 == IF ~Truthy(self.fx) THEN enableFX(self, Undefined) ELSE self
        effect == NewEffect(class, id, "this", textures)
    IN  IF s1.fx.t # "array"
        THEN [self |-> s1, threw |-> TRUE, ret |-> Undefined]
        ELSE [self |-> [s1 EXCEPT !.fx = Array(Append(s1.fx.items, effect))],
              threw |-> FALSE, ret |-> effect]

-----------------------------------------------------------------------------
(* Calls on a game object *)

Paddings == {Undefined} \cup {Num(n) : n \in 0..MaxPadding}

ClearFlags == {Undefined, Bool(FALSE), Bool(TRUE)}

Store(self) ==
    /\ pipeline' = self.pipeline
    /\ fx' = self.fx
    /\ fxPadding' = self.fxPadding

CallSetFXPadding ==
    \E padding \in Paddings :
        /\ Store(setFXPadding(Self, padding))
        /\ last' = Call("setFXPadding", <<padding>>, FALSE, This)
        /\ UNCHANGED <<renderer, textures, nextId, obj>>

CallEnableFX ==
    \E padding \in Paddings :
        /\ Store(enableFX(Self, padding))
        /\ last' = Call("enableFX", <<padding>>, FALSE, This)
        /\ UNCHANGED <<renderer, textures, nextId, obj>>

CallClearFX ==
    /\ Store(clearFX(Self))
    /\ last' = Call("clearFX", <<>>, FALSE, Undefined)
    /\ UNCHANGED <<renderer, textures, nextId, obj>>

CallRemoveFX ==
    /\ Store(removeFX(Self))
    /\ last' = Call("removeFX", <<>>, FALSE, Undefined)
    /\ UNCHANGED <<renderer, textures, nextId, obj>>

CallDisableFX ==
    \E clear \in ClearFlags :
        /\ Store(disableFX(Self, clear))
        /\ last' = Call("disableFX", <<clear>>, FALSE, Undefined)
        /\ UNCHANGED <<renderer, textures, nextId, obj>>

CallAdd(method, class) ==
    /\ nextId <= MaxFX
    /\ LET r == addFX(Self, class, nextId)
       IN  /\ Store(r.self)
           /\ last' = Call(method, <<>>, r.threw, r.ret)
    /\ nextId' = nextId + 1
    /\ UNCHANGED <<renderer, textures, obj>>

addGlowFX == CallAdd("addGlowFX", "Glow")
addShadowFX == CallAdd("addShadowFX", "Shadow")
addPixelateFX == CallAdd("addPixelateFX", "Pixelate")
addVignetteFX == CallAdd("addVignetteFX", "Vignette")
addShineFX == CallAdd("addShineFX", "Shine")
addBlurFX == CallAdd("addBlurFX", "Blur")
addGradientFX == CallAdd("addGradientFX", "Gradient")
addBloomFX == CallAdd("addBloomFX", "Bloom")
addColorMatrixFX == CallAdd("addColorMatrixFX", "ColorMatrix")
addCircleFX == CallAdd("addCircleFX", "Circle")
addBarrelFX == CallAdd("addBarrelFX", "Barrel")
addDisplacementFX == CallAdd("addDisplacementFX", "Displacement")

AddMethods ==
    {"addGlowFX", "addShadowFX", "addPixelateFX", "addVignetteFX", "addShineFX",
     "addBlurFX", "addGradientFX", "addBloomFX", "addColorMatrixFX",
     "addCircleFX", "addBarrelFX", "addDisplacementFX"}

Init ==
    /\ renderer \in Renderers
    /\ textures \in {{}, {"__WHITE"}}
    /\ pipeline = defaultPipeline
    /\ fx = Null
    /\ fxPadding = Num(0)
    /\ nextId = 1
    /\ obj = Null
    /\ last = NoCall

Next ==
    \/ CallSetFXPadding
    \/ CallEnableFX
    \/ CallClearFX
    \/ CallRemoveFX
    \/ CallDisableFX
    \/ addGlowFX
    \/ addShadowFX
    \/ addPixelateFX
    \/ addVignetteFX
    \/ addShineFX
    \/ addBlurFX
    \/ addGradientFX
    \/ addBloomFX
    \/ addColorMatrixFX
    \/ addCircleFX
    \/ addBarrelFX
    \/ addDisplacementFX

Spec == Init /\ [][Next]_vars

TypeOK ==
    /\ renderer \in Renderers
    /\ textures \subseteq FrameKeys
    /\ pipeline \in {"null", "MULTI_PIPELINE", FX_PIPELINE}
    /\ fx.t \in {"null", "array"}
    /\ fxPadding.t = "number"
    /\ nextId \in 1..(MaxFX + 1)

-----------------------------------------------------------------------------
(* Constructing a Blur controller directly *)

QualityArgs == {Undefined, Num(0), Num(1), Num(2)}
OffsetArgs == {Undefined, Num(5)}
StrengthArgs == {Undefined, Num(3)}
StepsArgs == {Undefined, Num(6)}
\* 0x000000, 0xFF8000
ColorArgs == {Undefined, Null, Num(0), Num(16744448)}

NewBlur ==
    \E quality \in QualityArgs, x \in OffsetArgs, y \in OffsetArgs,
       strength \in StrengthArgs, color \in ColorArgs, steps \in StepsArgs :
        /\ obj' = Blur(0, "this", quality, x, y, strength, color, steps)
        /\ last' = Call("new Blur", <<quality, x, y, strength, color, steps>>,
                        FALSE, This)
        /\ UNCHANGED <<renderer, textures, pipeline, fx, fxPadding, nextId>>

InitBlur ==
    /\ renderer = "webgl"
    /\ textures = {}
    /\ pipeline = defaultPipeline
    /\ fx = Null
    /\ fxPadding = Num(0)
    /\ nextId = 1
    /\ obj = Null
    /\ last = NoCall

NextBlur == NewBlur

SpecBlur == InitBlur /\ [][NextBlur]_vars

-----------------------------------------------------------------------------
(* Assigning the color of a Blur controller *)

\* every value of each channel on its own, and some mixed colours:
\* 0xFFFFFF, 0xFF8000, 0x123456, 0x808080, 0x010203, 0xFEFDFC, 0x7F80FE
ColorInputs ==
    {b * 65536 : b \in 0..255} \cup {b * 256 : b \in 0..255} \cup 0..255
    \cup {16777215, 16744448, 1193046, 8421504, 66051, 16711164, 8355070}

SetColor ==
    \E value \in ColorInputs :
        /\ obj' = colorSet(obj, Num(value))
        /\ last' = Call("color=", <<Num(value)>>, FALSE, Undefined)
        /\ UNCHANGED <<renderer, textures, pipeline, fx, fxPadding, nextId>>

InitColor ==
    /\ renderer = "webgl"
    /\ textures = {}
    /\ pipeline = defaultPipeline
    /\ fx = Null
    /\ fxPadding = Num(0)
    /\ nextId = 1
    /\ obj = Blur(0, "this", Undefined, Undefined, Undefined, Undefined,
                  Undefined, Undefined)
    /\ last = NoCall

NextColor == SetColor

SpecColor == InitColor /\ [][NextColor]_vars

-----------------------------------------------------------------------------
(* A Displacement controller and the texture manager it reads *)

TextureNames == FrameKeys \cup {"missing"}

NewDisplacement ==
    /\ obj' = Displacement(0, "this", textures)
    /\ last' = Call("new Displacement", <<>>, FALSE, This)
    /\ UNCHANGED <<renderer, textures, pipeline, fx, fxPadding, nextId>>

CallSetTexture ==
    \E texture \in TextureNames :
        /\ obj # Null
        /\ obj' = setTexture(obj, textures, texture)
        /\ last' = Call("setTexture", <<texture>>, FALSE, Undefined)
        /\ UNCHANGED <<renderer, textures, pipeline, fx, fxPadding, nextId>>

\* the host adds a texture
TextureAdded ==
    \E key \in FrameKeys \ textures :
        /\ textures' = textures \cup {key}
        /\ last' = Call("textures.add", <<key>>, FALSE, Undefined)
        /\ UNCHANGED <<renderer, pipeline, fx, fxPadding, nextId, obj>>

\* the host removes a texture
TextureRemoved ==
    \E key \in textures :
        /\ textures' = textures \ {key}
        /\ last' = Call("textures.remove", <<key>>, FALSE, Undefined)
        /\ UNCHANGED <<renderer, pipeline, fx, fxPadding, nextId, obj>>

InitDisplacement ==
    /\ renderer = "webgl"
    /\ textures \in SUBSET FrameKeys
    /\ pipeline = defaultPipeline
    /\ fx = Null
    /\ fxPadding = Num(0)
    /\ nextId = 1
    /\ obj = Null
    /\ last = NoCall

NextDisplacement ==
    \/ NewDisplacement
    \/ CallSetTexture
    \/ TextureAdded
    \/ TextureRemoved

SpecDisplacement == InitDisplacement /\ [][NextDisplacement]_vars

-----------------------------------------------------------------------------
(* Properties *)

\* the kind tag expected of the controller each add method returns
KindOfMethod ==
    [addGlowFX |-> "GLOW", addShadowFX |-> "SHADOW", addPixelateFX |-> "PIXELATE",
     addVignetteFX |-> "VIGNETTE", addShineFX |-> "SHINE", addBlurFX |-> "BLUR",
     addGradientFX |-> "GRADIENT", addBloomFX |-> "BLOOM",
     addColorMatrixFX |-> "COLOR_MATRIX", addCircleFX |-> "CIRCLE",
     addBarrelFX |-> "BARREL", addDisplacementFX |-> "DISPLACEMENT"]

Items(v) == IF v.t = "array" THEN v.items ELSE <<>>

\* C1: with a renderer that has pipelines, each add<Kind>FX call returns a
\* controller with the kind tag of the method called, makes the list one
\* longer with that controller last, and keeps the earlier entries in order.
C1_AddAppends ==
    [][(last'.op \in AddMethods /\ HasPipelines(renderer)) =>
          /\ ~last'.threw
          /\ fx'.t = "array"
          /\ Len(fx'.items) = Len(Items(fx)) + 1
          /\ fx'.items = Append(Items(fx), last'.ret)
          /\ last'.ret.type = KindOfMethod[last'.op]
          /\ \A i \in 1..Len(Items(fx)) : fx.items[i].id # last'.ret.id]_vars

C1_Witness ==
    /\ HasPipelines(renderer)
    /\ last.op = "addBlurFX"
    /\ fx.t = "array"
    /\ Len(fx.items) = 2
    /\ fx.items[1].type = "DISPLACEMENT"
    /\ fx.items[2] = last.ret

\* C2: enableFX without a renderer, or with a renderer that has no pipelines,
\* returns the game object, does not throw and leaves fx, pipeline and
\* fxPadding as they were, whatever padding is passed.
C2_EnableWithoutPipelinesIsNoOp ==
    [][(last'.op = "enableFX" /\ ~HasPipelines(renderer)) =>
          /\ ~last'.threw
          /\ last'.ret = This
          /\ fx' = fx
          /\ fx' = Null
          /\ pipeline' = pipeline
          /\ fxPadding' = fxPadding]_vars

C2_Witness ==
    /\ renderer = "canvas"
    /\ last.op = "enableFX"
    /\ last.args[1] = Num(1)
    /\ fxPadding = Num(0)
    /\ fx = Null

\* C3: no operation of the mixin ever throws.
C3_NoOperationThrows == ~last.threw

\* C4: after disableFX(true) the pipeline is the default one and the list of
\* controllers is empty.
C4_DisableAndClearEmptiesList ==
    (last.op = "disableFX" /\ last.args[1] = Bool(TRUE)) =>
        /\ pipeline = defaultPipeline
        /\ Len(Items(fx)) = 0

\* C5: disableFX(false) and disableFX() set the pipeline to the default one
\* and leave the list of controllers and fxPadding as they were.
C5_DisableKeepsList ==
    [][(last'.op = "disableFX" /\ ~Truthy(last'.args[1])) =>
          /\ ~last'.threw
          /\ pipeline' = defaultPipeline
          /\ fx' = fx
          /\ fxPadding' = fxPadding]_vars

C5_Witness ==
    /\ last.op = "disableFX"
    /\ last.args[1] = Bool(FALSE)
    /\ pipeline = "MULTI_PIPELINE"
    /\ fxPadding = Num(1)
    /\ Len(Items(fx)) = 2

\* C6: reading color after assigning a 24-bit value gives that value back;
\* channels (1,1,1) read as 0xFFFFFF, (0,0,0) as 0, and assigning 0xFF0000
\* leaves the channels (1,0,0).
C6_ColorRoundTrip ==
    /\ last.op = "color=" => colorGet(obj) = last.args[1]
    /\ obj.glcolor = <<One, One, One>> => colorGet(obj) = Num(16777215)
    /\ obj.glcolor = <<DZero, DZero, DZero>> => colorGet(obj) = Num(0)
    /\ (last.op = "color=" /\ last.args[1] = Num(16711680)) =>
           obj.glcolor = <<One, DZero, DZero>>

C6_Witness ==
    /\ last.op = "color="
    /\ last.args[1] = Num(8355070)
    /\ obj.glcolor = <<Div255[127], Div255[124], Div255[254]>>
    /\ colorGet(obj) = Num(8355070)

ArgOr(arg, default) == IF arg = Undefined THEN default ELSE arg

\* C7: every field of a new Blur equals the argument supplied for it, or the
\* documented default when the argument is omitted.
C7_BlurFieldsEqualArguments ==
    last.op = "new Blur" =>
        /\ obj.quality = ArgOr(last.args[1], Num(0))
        /\ obj.x = ArgOr(last.args[2], Num(2))
        /\ obj.y = ArgOr(last.args[3], Num(2))
        /\ obj.strength = ArgOr(last.args[4], Num(1))
        /\ colorGet(obj) = IF last.args[5] \in {Undefined, Null}
                           THEN Num(16777215) ELSE last.args[5]
        /\ obj.steps = ArgOr(last.args[6], Num(4))

\* C8: with a renderer that has pipelines, enableFX sets the pipeline to the
\* FX pipeline, allocates an empty list only when fx is null and keeps an
\* existing list, and changes fxPadding only when a padding is passed;
\* setFXPadding() without an argument sets fxPadding to 0.
C8_EnableIsIdempotentOnList ==
    [][/\ (last'.op = "enableFX" /\ HasPipelines(renderer)) =>
             /\ pipeline' = FX_PIPELINE
             /\ fx' = IF fx = Null THEN Array(<<>>) ELSE fx
             /\ fxPadding' = ArgOr(last'.args[1], fxPadding)
       /\ (last'.op = "setFXPadding" /\ last'.args[1] = Undefined) =>
             fxPadding' = Num(0)]_vars

C8_Witness ==
    /\ HasPipelines(renderer)
    /\ last.op = "enableFX"
    /\ last.args[1] = Undefined
    /\ fxPadding = Num(1)
    /\ pipeline = FX_PIPELINE
    /\ Len(Items(fx)) = 2

\* C9: setTexture never throws; when the named frame is missing glTexture
\* stays as it was, and when the frame exists glTexture becomes the frame's
\* glTexture; a new Displacement has glTexture unset when '__WHITE' is missing.
C9_SetTextureKeepsOnMiss ==
    [][/\ last'.op = "setTexture" =>
             /\ ~last'.threw
             /\ obj'.glTexture = IF last'.args[1] \in textures
                                 THEN GLTextureOf(last'.args[1])
                                 ELSE obj.glTexture
       /\ last'.op = "new Displacement" =>
             obj'.glTexture = IF "__WHITE" \in textures
                              THEN GLTextureOf("__WHITE")
                              ELSE Undefined]_vars

C9_Witness ==
    /\ last.op = "setTexture"
    /\ last.args[1] = "distort"
    /\ "distort" \notin textures
    /\ obj.glTexture = GLTextureOf("noise")

\* C10: with a renderer that has pipelines, the pipeline is the FX pipeline
\* right after every add<Kind>FX call.
C10_AddLeavesEnabled ==
    (last.op \in AddMethods /\ HasPipelines(renderer)) => pipeline = FX_PIPELINE

=============================================================================
